---- MODULE Spec2Model ----
(***************************************************************************)
(* Model of tasks/cephfs_test_runner.py: the DecoratingLoader, the         *)
(* LogStream sink, the InteractiveFailureResult policy and the task()      *)
(* context manager, together with the behaviour of the unittest (2.7)      *)
(* loader, suite and runner that task() drives through its overridden      *)
(* hooks.                                                                  *)
(***************************************************************************)
EXTENDS Integers, Sequences, FiniteSets, TLC

(***************************************************************************)
(* Bounds of the explored inputs.                                          *)
(***************************************************************************)
MaxModules == 2
MaxWrites == 4
MaxChunk == 3
MaxText == 6
MaxFlush == 1

(***************************************************************************)
(* The test package the loader resolves names in: one module "m" with the  *)
(* test classes A (test_a1, test_a2) and B (test_b1).  A dotted name is    *)
(* the sequence of its parts.                                              *)
(***************************************************************************)
Classes == {"m.A", "m.B"}

NoClass == "None"

ClassNameOf(part) == "m." \o part

MethodsOf(cls) ==
    IF cls = "m.A" THEN <<"test_a1", "test_a2">>
    ELSE IF cls = "m.B" THEN <<"test_b1">>
    ELSE <<>>

ModuleClasses == <<"m.A", "m.B">>

Names ==
    { <<"m">>, <<"m", "A">>, <<"m", "A", "test_a2">>,
      <<"m", "B", "test_b1">>, <<"m", "Z">> }

SeqsUpTo(S, n) == UNION { [1..k -> S] : k \in 0..n }

RECURSIVE Flatten(_)
Flatten(ss) ==
    IF ss = <<>> THEN <<>> ELSE Head(ss) \o Flatten(Tail(ss))

Range(s) == { s[i] : i \in DOMAIN s }

(***************************************************************************)
(* Shared attributes handed to the DecoratingLoader (task, lines 68-77).   *)
(* ctx.mounts maps mount ids to handles; mounts is the list of handles     *)
(* sorted by id.                                                           *)
(***************************************************************************)
CtxMountIds == {0, 1}

CtxMounts == [i \in CtxMountIds |-> IF i = 0 THEN "mount.0" ELSE "mount.1"]

RECURSIVE SortedIds(_)
SortedIds(S) ==
    IF S = {} THEN <<>>
    ELSE LET lo == CHOOSE x \in S : \A y \in S : x <= y
         IN  <<lo>> \o SortedIds(S \ {lo})

MountsSorted ==
    LET ids == SortedIds(CtxMountIds)
    IN  [i \in 1..Len(ids) |-> CtxMounts[ids[i]]]

Params == [ctx |-> "ctx", mounts |-> MountsSorted, fs |-> "fs"]

Unset == [ctx |-> "unset", mounts |-> <<>>, fs |-> "unset"]

(***************************************************************************)
(* unittest naming of tests and of class-fixture error holders (str()).    *)
(***************************************************************************)
TestCase(cls, meth) == [cls |-> cls, meth |-> meth]

StrTest(t) == t.meth \o " (" \o t.cls \o ")"

StrHolder(fixture, cls) == fixture \o " (" \o cls \o ")"

(***************************************************************************)
(* TestLoader.loadTestsFromTestCase of the base loader: one test instance  *)
(* per test method, in method-name order.                                  *)
(***************************************************************************)
BaseLoadTestsFromTestCase(cls) ==
    [i \in 1..Len(MethodsOf(cls)) |-> TestCase(cls, MethodsOf(cls)[i])]

(***************************************************************************)
(* How a dotted name resolves (TestLoader.loadTestsFromName): to the       *)
(* module, to a TestCase class, to a test method of a class, or not at all.*)
(***************************************************************************)
ResolveKind(name) ==
    IF Len(name) = 0 \/ name[1] # "m" THEN "unresolved"
    ELSE IF Len(name) = 1 THEN "module"
    ELSE IF ClassNameOf(name[2]) \notin Classes THEN "unresolved"
    ELSE IF Len(name) = 2 THEN "class"
    ELSE IF Len(name) = 3 /\ name[3] \in Range(MethodsOf(ClassNameOf(name[2])))
         THEN "method"
    ELSE "unresolved"

ResolutionNeverFails(name) == FALSE

(* loadTestsFromName raises (ImportError / AttributeError) for such a name *)
ResolutionFails(name) == ResolveKind(name) = "unresolved"

(* The classes on which loadTestsFromTestCase is called while resolving. *)
ClassesLoadedBy(name) ==
    CASE ResolveKind(name) = "module" -> ModuleClasses
      [] ResolveKind(name) = "class"  -> <<ClassNameOf(name[2])>>
      [] OTHER                        -> <<>>

RECURSIVE LoadClasses(_)
LoadClasses(cs) ==
    IF cs = <<>> THEN <<>>
    ELSE BaseLoadTestsFromTestCase(Head(cs)) \o LoadClasses(Tail(cs))

(* The tests (flattened, in suite order) a name resolves to. *)
TestsOfName(name) ==
    CASE ResolveKind(name) = "method" ->
             <<TestCase(ClassNameOf(name[2]), name[3])>>
      [] OTHER -> LoadClasses(ClassesLoadedBy(name))

(***************************************************************************)
(* DecoratingLoader.loadTestsFromTestCase: setattr every parameter on the  *)
(* class (lines 23-24), then the base loader.  Decorate is the effect on   *)
(* the class attribute table and on the per-class decoration count.        *)
(***************************************************************************)
SetAttrsWithoutFs(old, params) == [params EXCEPT !.fs = "unset"]

SetAttrs(old, params) == params

RECURSIVE DecorateAll(_, _)
DecorateAll(at, cs) ==
    IF cs = <<>> THEN at
    ELSE DecorateAll([at EXCEPT ![Head(cs)] = SetAttrs(@, Params)], Tail(cs))

RECURSIVE CountAll(_, _)
CountAll(cnt, cs) ==
    IF cs = <<>> THEN cnt
    ELSE CountAll([cnt EXCEPT ![Head(cs)] = @ + 1], Tail(cs))

(***************************************************************************)
(* The task configuration: None, or a mapping with some keys; `modules`    *)
(* is the value under the key "modules" when that key is present.          *)
(***************************************************************************)
ModuleLists == SeqsUpTo(Names, MaxModules)

Configs ==
    { c \in [isNone : BOOLEAN, keys : SUBSET {"modules", "other"},
             modules : ModuleLists] :
        /\ c.isNone => c.keys = {}
        /\ "modules" \notin c.keys => c.modules = <<>> }

UseModulesIfKeyPresent(c) ==
    /\ ~c.isNone /\ c.keys # {}
    /\ "modules" \in c.keys

(* config and 'modules' in config and config['modules']   (line 83) *)
UseModules(c) ==
    /\ ~c.isNone /\ c.keys # {}
    /\ "modules" \in c.keys
    /\ c.modules # <<>>

InteractiveFlags == {"absent", "false", "true"}

InteractiveOnErrorDefaultTrue(flag) == flag # "false"

(* ctx.config.get("interactive-on-error", False)   (line 98) *)
InteractiveOnError(flag) == flag = "true"

(***************************************************************************)
(* State.                                                                  *)
(***************************************************************************)
VARIABLES
    pc,                 \* position of task() / of the runner it drives
    ret,                \* where the run continues when the debug session returns
    exc,                \* exception that left task(), "none" if none
    message,            \* message of the RuntimeError raised at line 125
    config,             \* the config argument
    ioe,                \* ctx.config's "interactive-on-error" entry
    ctx_fs,             \* ctx.fs
    ctx_mounts,         \* ctx.mounts (mount id -> mount handle)
    ifr_ctx,            \* InteractiveFailureResult.ctx (class attribute)
    attrs,              \* class -> attributes stamped on the class
    decorCount,         \* class -> number of times it was decorated
    module_suites,      \* line 84
    resolved,           \* names handed to loadTestsFromName, in call order
    discoverCalls,      \* number of calls of discover()
    overall_suite,      \* the assembled suite, flattened to its tests
    result_class,       \* "none", "plain" or "interactive"
    resultCreated,      \* the runner has made its result object
    failures, errors,   \* result.failures / result.errors (str of each entry)
    testsRun,           \* result.testsRun
    shouldStop,         \* result.shouldStop
    idx,                \* position in overall_suite of the test being handled
    previousTestClass,  \* result._previousTestClass
    classSetupFailed,   \* class -> cls._classSetupFailed
    success,            \* TestCase.run's local `success`
    recorded,           \* entries of failures and errors in recording order
    firstBad,           \* position of the first test that failed or errored
    lastStarted,        \* position of the last test that was started
    curTestOutcomes,    \* failures/errors reported for the current test
    curTestSessions,    \* debug sessions entered for the current test
    curStartLogs,       \* "Starting test" lines logged for the current test
    curRan,             \* the current test's setUp has been entered
    sessionsOpen,       \* debug sessions entered and not yet returned
    sessionArg,         \* ctx argument of the last interactive.task call
    buffer,             \* LogStream.buffer
    emitted,            \* records passed to log.info by LogStream.write
    written,            \* concatenation of all data written to the LogStream
    nwrites,            \* number of write() calls
    nflush,             \* number of flush() calls
    lastOp              \* the last LogStream call: "write" or "flush"

ctlVars == <<pc, ret, exc, message>>
inputVars == <<config, ioe>>
ctxVars == <<ctx_fs, ctx_mounts, ifr_ctx>>
loaderVars ==
    <<attrs, decorCount, module_suites, resolved, discoverCalls, overall_suite>>
resultVars ==
    <<result_class, resultCreated, failures, errors, testsRun, shouldStop>>
suiteVars == <<idx, previousTestClass, classSetupFailed, success>>
histVars ==
    <<recorded, firstBad, lastStarted, curTestOutcomes,
      curTestSessions, curStartLogs, curRan, sessionsOpen, sessionArg>>
logVars == <<buffer, emitted, written, nwrites, nflush, lastOp>>

vars ==
    <<ctlVars, inputVars, ctxVars, loaderVars, resultVars, suiteVars,
      histVars, logVars>>

LogInit ==
    /\ buffer = <<>>
    /\ emitted = <<>>
    /\ written = <<>>
    /\ nwrites = 0
    /\ nflush = 0
    /\ lastOp = "none"

TaskInit ==
    /\ pc = "entry"
    /\ ret = "none"
    /\ exc = "none"
    /\ message = ""
    /\ ctx_fs = "unset"
    /\ ctx_mounts = CtxMounts
    /\ ifr_ctx = "None"
    /\ attrs = [c \in Classes |-> Unset]
    /\ decorCount = [c \in Classes |-> 0]
    /\ module_suites = <<>>
    /\ resolved = <<>>
    /\ discoverCalls = 0
    /\ overall_suite = <<>>
    /\ result_class = "none"
    /\ resultCreated = FALSE
    /\ failures = <<>>
    /\ errors = <<>>
    /\ testsRun = 0
    /\ shouldStop = FALSE
    /\ idx = 0
    /\ previousTestClass = NoClass
    /\ classSetupFailed = [c \in Classes |-> FALSE]
    /\ success = FALSE
    /\ recorded = <<>>
    /\ firstBad = 0
    /\ lastStarted = 0
    /\ curTestOutcomes = 0
    /\ curTestSessions = 0
    /\ curStartLogs = 0
    /\ curRan = FALSE
    /\ sessionsOpen = 0
    /\ sessionArg = "none"

Init ==
    /\ config \in Configs
    /\ ioe \in InteractiveFlags
    /\ TaskInit
    /\ LogInit

SetupOverwritesMounts ==
    /\ pc = "entry"
    /\ ctx_fs' = Params.fs
    /\ ctx_mounts' = MountsSorted
    /\ pc' = "assemble"
    /\ UNCHANGED <<ret, exc, message, inputVars, ifr_ctx, loaderVars,
                   resultVars, suiteVars, histVars, logVars>>

(***************************************************************************)
(* task(), lines 68-80: the filesystem handle, the sorted mounts, the      *)
(* loader, and ctx.fs.                                                     *)
(***************************************************************************)
Setup ==
    /\ pc = "entry"
    /\ ctx_fs' = Params.fs
    /\ pc' = "assemble"
    /\ UNCHANGED <<ret, exc, message, inputVars, ctx_mounts, ifr_ctx, loaderVars,
                   resultVars, suiteVars, histVars, logVars>>

(***************************************************************************)
(* One iteration of the loop of lines 85-87: resolve the next name.  A     *)
(* name that does not resolve raises out of task().                        *)
(***************************************************************************)
AppendSuiteFront(ms, s) == <<s>> \o ms

AppendSuite(ms, s) == Append(ms, s)

LoadName ==
    /\ pc = "assemble"
    /\ UseModules(config)
    /\ Len(module_suites) < Len(config.modules)
    /\ LET name == config.modules[Len(module_suites) + 1]
       IN  /\ resolved' = Append(resolved, name)
           /\ IF ResolutionFails(name)
              THEN /\ pc' = "raised"
                   /\ exc' = "ResolutionError"
                   /\ UNCHANGED <<attrs, decorCount, module_suites>>
              ELSE /\ attrs' = DecorateAll(attrs, ClassesLoadedBy(name))
                   /\ decorCount' = CountAll(decorCount, ClassesLoadedBy(name))
                   /\ module_suites' =
                          AppendSuite(module_suites, TestsOfName(name))
                   /\ UNCHANGED <<pc, exc>>
    /\ UNCHANGED <<ret, message, inputVars, ctxVars, discoverCalls,
                   overall_suite, resultVars, suiteVars, histVars, logVars>>

(* line 88: suite.TestSuite(module_suites) *)
BuildSuite ==
    /\ pc = "assemble"
    /\ UseModules(config)
    /\ Len(module_suites) = Len(config.modules)
    /\ overall_suite' = Flatten(module_suites)
    /\ pc' = "select"
    /\ UNCHANGED <<ret, exc, message, inputVars, ctxVars, attrs, decorCount,
                   module_suites, resolved, discoverCalls, resultVars,
                   suiteVars, histVars, logVars>>

(***************************************************************************)
(* lines 91-96: discovery over the cephfs/ directory.  It either raises    *)
(* or loads every class of every module it finds.                          *)
(***************************************************************************)
Discover ==
    /\ pc = "assemble"
    /\ ~UseModules(config)
    /\ discoverCalls' = discoverCalls + 1
    /\ \E ok \in BOOLEAN :
          IF ok
          THEN /\ attrs' = DecorateAll(attrs, ModuleClasses)
               /\ decorCount' = CountAll(decorCount, ModuleClasses)
               /\ overall_suite' = LoadClasses(ModuleClasses)
               /\ pc' = "select"
               /\ UNCHANGED exc
          ELSE /\ pc' = "raised"
               /\ exc' = "DiscoveryError"
               /\ UNCHANGED <<attrs, decorCount, overall_suite>>
    /\ UNCHANGED <<ret, message, inputVars, ctxVars, module_suites, resolved,
                   resultVars, suiteVars, histVars, logVars>>

(***************************************************************************)
(* lines 98-107: the result class is chosen from ctx.config.               *)
(***************************************************************************)
SelectPolicy ==
    /\ pc = "select"
    /\ IF InteractiveOnError(ioe)
       THEN /\ ifr_ctx' = Params.ctx
            /\ result_class' = "interactive"
       ELSE /\ result_class' = "plain"
            /\ UNCHANGED ifr_ctx
    /\ pc' = "run"
    /\ UNCHANGED <<ret, exc, message, inputVars, ctx_fs, ctx_mounts, loaderVars,
                   resultCreated, failures, errors, testsRun, shouldStop,
                   suiteVars, histVars, logVars>>

(***************************************************************************)
(* lines 110-114: TextTestRunner(..., failfast=True).run(overall_suite).   *)
(* The runner makes one result object of the chosen class and copies its   *)
(* failfast flag onto it.                                                  *)
(***************************************************************************)
FailfastOff == FALSE

Failfast == TRUE

RunnerStart ==
    /\ pc = "run"
    /\ resultCreated' = TRUE
    /\ pc' = "loop"
    /\ UNCHANGED <<ret, exc, message, inputVars, ctxVars, loaderVars,
                   result_class, failures, errors, testsRun, shouldStop,
                   suiteVars, histVars, logVars>>

CurTest == overall_suite[idx]

CurClass == overall_suite[idx].cls

(***************************************************************************)
(* What the result object does with a reported failure or error.           *)
(*   plain: TextTestResult.addFailure/addError; the base method is wrapped *)
(*     by @failfast, which calls stop() when result.failfast is set, and   *)
(*     appends to failures or errors.                                      *)
(*   interactive (lines 51-63): logs, then calls interactive.task and      *)
(*     blocks; the base method is not called.                              *)
(***************************************************************************)
PlainAdd(kind, id, cont) ==
    /\ shouldStop' = (shouldStop \/ Failfast)
    /\ failures' = IF kind = "failure" THEN Append(failures, id) ELSE failures
    /\ errors' = IF kind = "error" THEN Append(errors, id) ELSE errors
    /\ recorded' = Append(recorded, [id |-> id, kind |-> kind])
    /\ pc' = cont
    /\ UNCHANGED <<ret, curTestSessions, sessionsOpen, sessionArg>>

InteractiveAddFireAndForget(isTest, cont) ==
    /\ pc' = cont
    /\ curTestSessions' = IF isTest THEN curTestSessions + 1 ELSE curTestSessions
    /\ sessionsOpen' = sessionsOpen + 1
    /\ sessionArg' = ifr_ctx
    /\ UNCHANGED <<ret, shouldStop, failures, errors, recorded>>

InteractiveAddRecords(isTest, cont) ==
    /\ pc' = "suspended"
    /\ ret' = cont
    /\ curTestSessions' = IF isTest THEN curTestSessions + 1 ELSE curTestSessions
    /\ sessionsOpen' = sessionsOpen + 1
    /\ sessionArg' = ifr_ctx
    /\ errors' = Append(errors, StrTest(CurTest))
    /\ recorded' = Append(recorded, [id |-> StrTest(CurTest), kind |-> "error"])
    /\ UNCHANGED <<shouldStop, failures>>

InteractiveAddNoSession(isTest, cont) ==
    /\ pc' = cont
    /\ UNCHANGED <<ret, curTestSessions, sessionsOpen, sessionArg, shouldStop, failures,
                   errors, recorded>>

InteractiveAdd(isTest, cont) ==
    /\ pc' = "suspended"
    /\ ret' = cont
    /\ curTestSessions' = IF isTest THEN curTestSessions + 1 ELSE curTestSessions
    /\ sessionsOpen' = sessionsOpen + 1
    /\ sessionArg' = ifr_ctx
    /\ UNCHANGED <<shouldStop, failures, errors, recorded>>

Report(kind, id, isTest, cont) ==
    /\ curTestOutcomes' = IF isTest THEN curTestOutcomes + 1 ELSE curTestOutcomes
    /\ firstBad' = IF isTest /\ firstBad = 0 THEN idx ELSE firstBad
    /\ IF result_class = "interactive"
       THEN InteractiveAdd(isTest, cont)
       ELSE PlainAdd(kind, id, cont)

NoReport(cont) ==
    /\ pc' = cont
    /\ UNCHANGED <<ret, shouldStop, failures, errors, recorded, firstBad,
                   curTestOutcomes, curTestSessions, sessionsOpen, sessionArg>>

(* interactive.task returns: the interrupted add* call returns. *)
InteractiveReturn ==
    /\ pc = "suspended"
    /\ pc' = ret
    /\ ret' = "none"
    /\ sessionsOpen' = sessionsOpen - 1
    /\ UNCHANGED sessionArg
    /\ UNCHANGED <<exc, message, inputVars, ctxVars, loaderVars, resultVars,
                   suiteVars, recorded, firstBad, lastStarted, curTestOutcomes,
                   curTestSessions, curStartLogs, curRan, logVars>>

(***************************************************************************)
(* TestSuite.run: the head of the loop over the tests.                     *)
(***************************************************************************)
LoopHead ==
    /\ pc = "loop"
    /\ IF shouldStop \/ idx = Len(overall_suite)
       THEN /\ pc' = "topLevel"
            /\ UNCHANGED <<idx, curTestOutcomes, curTestSessions,
                           curStartLogs, curRan>>
       ELSE /\ pc' = "tearDownPrev"
            /\ idx' = idx + 1
            /\ curTestOutcomes' = 0
            /\ curTestSessions' = 0
            /\ curStartLogs' = 0
            /\ curRan' = FALSE
    /\ UNCHANGED <<ret, exc, message, inputVars, ctxVars, loaderVars,
                   resultVars, previousTestClass, classSetupFailed, success,
                   recorded, firstBad, lastStarted, sessionsOpen, sessionArg,
                   logVars>>

(* TestSuite._tearDownPreviousClass(test, result) *)
TearDownPreviousClass ==
    /\ pc = "tearDownPrev"
    /\ IF \/ previousTestClass = CurClass
          \/ previousTestClass = NoClass
          \/ classSetupFailed[previousTestClass]
       THEN NoReport("classSetUp")
       ELSE \E ok \in BOOLEAN :
               IF ok THEN NoReport("classSetUp")
               ELSE Report("error",
                           StrHolder("tearDownClass", previousTestClass),
                           FALSE, "classSetUp")
    /\ UNCHANGED <<exc, message, inputVars, ctxVars, loaderVars, result_class,
                   resultCreated, testsRun, suiteVars, lastStarted,
                   curStartLogs, curRan, logVars>>

(* TestSuite._handleClassSetUp(test, result) *)
HandleClassSetUp ==
    /\ pc = "classSetUp"
    /\ IF previousTestClass = CurClass
       THEN /\ NoReport("afterFixture")
            /\ UNCHANGED classSetupFailed
       ELSE \E ok \in BOOLEAN :
               IF ok
               THEN /\ classSetupFailed' =
                           [classSetupFailed EXCEPT ![CurClass] = FALSE]
                    /\ NoReport("afterFixture")
               ELSE /\ classSetupFailed' =
                           [classSetupFailed EXCEPT ![CurClass] = TRUE]
                    /\ Report("error", StrHolder("setUpClass", CurClass),
                              FALSE, "afterFixture")
    /\ UNCHANGED <<exc, message, inputVars, ctxVars, loaderVars, result_class,
                   resultCreated, testsRun, idx, previousTestClass, success,
                   lastStarted, curStartLogs, curRan, logVars>>

AfterFixtureRetries ==
    /\ pc = "afterFixture"
    /\ previousTestClass' = CurClass
    /\ pc' = IF classSetupFailed[CurClass] THEN "classSetUp" ELSE "startTest"
    /\ UNCHANGED <<ret, exc, message, inputVars, ctxVars, loaderVars,
                   resultVars, idx, classSetupFailed, success, histVars,
                   logVars>>

(* result._previousTestClass = test.__class__; skip the test if the class
   set-up failed, else call it. *)
AfterFixture ==
    /\ pc = "afterFixture"
    /\ previousTestClass' = CurClass
    /\ pc' = IF classSetupFailed[CurClass] THEN "loop" ELSE "startTest"
    /\ UNCHANGED <<ret, exc, message, inputVars, ctxVars, loaderVars,
                   resultVars, idx, classSetupFailed, success, histVars,
                   logVars>>

(***************************************************************************)
(* TestCase.run(result): startTest, setUp, the test method, tearDown,      *)
(* addSuccess, stopTest.                                                   *)
(***************************************************************************)

LogStartingTestMissing(n) == n

(* log.info("Starting test: ...") of line 106, counted *)
LogStartingTest(n) == n + 1

(* LoggingResult.startTest (lines 105-107): the log line, then the base
   startTest, which counts the test. *)
StartTest ==
    /\ pc = "startTest"
    /\ curStartLogs' = LogStartingTest(curStartLogs)
    /\ testsRun' = testsRun + 1
    /\ lastStarted' = idx
    /\ pc' = "setUp"
    /\ UNCHANGED <<ret, exc, message, inputVars, ctxVars, loaderVars,
                   result_class, resultCreated, failures, errors, shouldStop,
                   suiteVars, recorded, firstBad, curTestOutcomes,
                   curTestSessions, curRan, sessionsOpen, sessionArg, logVars>>

(* setUp(): an exception is reported with addError and skips the test
   method and tearDown. *)
RunSetUp ==
    /\ pc = "setUp"
    /\ curRan' = TRUE
    /\ success' = FALSE
    /\ \E ok \in BOOLEAN :
          IF ok THEN NoReport("body")
          ELSE Report("error", StrTest(CurTest), TRUE, "finish")
    /\ UNCHANGED <<exc, message, inputVars, ctxVars, loaderVars, result_class,
                   resultCreated, testsRun, idx, previousTestClass,
                   classSetupFailed, lastStarted, curStartLogs, logVars>>

(* the test method: passes, fails an assertion (addFailure) or raises
   another exception (addError). *)
RunBody ==
    /\ pc = "body"
    /\ \E outcome \in {"pass", "fail", "error"} :
          CASE outcome = "pass" ->
                   /\ success' = TRUE
                   /\ NoReport("tearDown")
            [] outcome = "fail" ->
                   /\ UNCHANGED success
                   /\ Report("failure", StrTest(CurTest), TRUE, "tearDown")
            [] outcome = "error" ->
                   /\ UNCHANGED success
                   /\ Report("error", StrTest(CurTest), TRUE, "tearDown")
    /\ UNCHANGED <<exc, message, inputVars, ctxVars, loaderVars, result_class,
                   resultCreated, testsRun, idx, previousTestClass,
                   classSetupFailed, lastStarted, curStartLogs, curRan,
                   logVars>>

(* tearDown(): runs whatever the test method did; an exception is reported
   with addError. *)
RunTearDown ==
    /\ pc = "tearDown"
    /\ \E ok \in BOOLEAN :
          IF ok
          THEN /\ UNCHANGED success
               /\ NoReport("finish")
          ELSE /\ success' = FALSE
               /\ Report("error", StrTest(CurTest), TRUE, "finish")
    /\ UNCHANGED <<exc, message, inputVars, ctxVars, loaderVars, result_class,
                   resultCreated, testsRun, idx, previousTestClass,
                   classSetupFailed, lastStarted, curStartLogs, curRan,
                   logVars>>

(* addSuccess if the test succeeded, then stopTest; back to the loop. *)
FinishTest ==
    /\ pc = "finish"
    /\ pc' = "loop"
    /\ UNCHANGED <<ret, exc, message, inputVars, ctxVars, loaderVars,
                   resultVars, suiteVars, histVars, logVars>>

(* after the loop, in the top-level suite: _tearDownPreviousClass(None) *)
TopLevelTearDown ==
    /\ pc = "topLevel"
    /\ IF previousTestClass = NoClass \/ classSetupFailed[previousTestClass]
       THEN NoReport("runEnd")
       ELSE \E ok \in BOOLEAN :
               IF ok THEN NoReport("runEnd")
               ELSE Report("error",
                           StrHolder("tearDownClass", previousTestClass),
                           FALSE, "runEnd")
    /\ UNCHANGED <<exc, message, inputVars, ctxVars, loaderVars, result_class,
                   resultCreated, testsRun, suiteVars, lastStarted,
                   curStartLogs, curRan, logVars>>

(***************************************************************************)
(* lines 116-127: inspect the result; raise RuntimeError naming the bad    *)
(* tests, or yield to the caller.                                          *)
(***************************************************************************)
WasSuccessfulFailuresOnly(fails, errs) == Len(fails) = 0

WasSuccessful(fails, errs) == Len(fails) = 0 /\ Len(errs) = 0

BadTestsFailuresFirst(errs, fails) == fails \o errs

BadTests(errs, fails) == errs \o fails

RECURSIVE JoinComma(_)
JoinComma(ids) ==
    IF ids = <<>> THEN ""
    ELSE IF Len(ids) = 1 THEN ids[1]
    ELSE ids[1] \o ", " \o JoinComma(Tail(ids))

FormatMessage(ids) == "Test failure: " \o JoinComma(ids)

Inspect ==
    /\ pc = "runEnd"
    /\ IF ~WasSuccessful(failures, errors)
       THEN /\ pc' = "raised"
            /\ exc' = "RuntimeError"
            /\ message' = FormatMessage(BadTests(errors, failures))
       ELSE /\ pc' = "yielded"
            /\ UNCHANGED <<exc, message>>
    /\ UNCHANGED <<ret, inputVars, ctxVars, loaderVars, resultVars, suiteVars,
                   histVars, logVars>>

(* the caller's with-block ends and the generator runs to its end *)
Resume ==
    /\ pc = "yielded"
    /\ pc' = "exited"
    /\ UNCHANGED <<ret, exc, message, inputVars, ctxVars, loaderVars,
                   resultVars, suiteVars, histVars, logVars>>

Next ==
    \/ Setup
    \/ LoadName
    \/ BuildSuite
    \/ Discover
    \/ SelectPolicy
    \/ RunnerStart
    \/ LoopHead
    \/ TearDownPreviousClass
    \/ HandleClassSetUp
    \/ AfterFixture
    \/ StartTest
    \/ RunSetUp
    \/ RunBody
    \/ RunTearDown
    \/ FinishTest
    \/ TopLevelTearDown
    \/ InteractiveReturn
    \/ Inspect
    \/ Resume

Spec == Init /\ [][Next]_vars

(***************************************************************************)
(* The run under the assumption that every step that can be taken is       *)
(* eventually taken: the code is sequential, and every fixture, test and   *)
(* debugging session is assumed to return.                                 *)
(***************************************************************************)
FairSpec == Init /\ [][Next]_vars /\ WF_vars(Next)

(***************************************************************************)
(* LogStream (lines 28-41).  Text is a sequence of characters.             *)
(***************************************************************************)
NL == "\n"

Chars == {"a", "b", NL}

Chunks == SeqsUpTo(Chars, MaxChunk)

(* str.split("\n") *)
RECURSIVE SplitNL(_)
SplitNL(s) ==
    IF NL \notin Range(s) THEN <<s>>
    ELSE LET i == CHOOSE k \in DOMAIN s :
                     s[k] = NL /\ \A j \in 1..(k - 1) : s[j] # NL
         IN  <<SubSeq(s, 1, i - 1)>> \o SplitNL(SubSeq(s, i + 1, Len(s)))

LogWriteForgetsBuffer(buf, data) ==
    LET lines == SplitNL(data)
    IN  IF NL \in Range(data)
        THEN [buffer |-> lines[Len(lines)],
              lines |-> SubSeq(lines, 1, Len(lines) - 1)]
        ELSE [buffer |-> buf \o data, lines |-> <<>>]

LogWriteEmitsPartial(buf, data) ==
    LET b == buf \o data
        lines == SplitNL(b)
    IN  IF NL \in Range(b)
        THEN [buffer |-> <<>>,
              lines |-> IF lines[Len(lines)] = <<>>
                        THEN SubSeq(lines, 1, Len(lines) - 1)
                        ELSE lines]
        ELSE [buffer |-> b, lines |-> <<>>]

(* LogStream.write: the new buffer and the lines passed to log.info *)
LogWrite(buf, data) ==
    LET b == buf \o data
        lines == SplitNL(b)
    IN  IF NL \in Range(b)
        THEN [buffer |-> lines[Len(lines)],
              lines |-> SubSeq(lines, 1, Len(lines) - 1)]
        ELSE [buffer |-> b, lines |-> <<>>]

Write ==
    /\ nwrites < MaxWrites
    /\ \E data \in Chunks :
          /\ Len(written) + Len(data) <= MaxText
          /\ buffer' = LogWrite(buffer, data).buffer
          /\ emitted' = emitted \o LogWrite(buffer, data).lines
          /\ written' = written \o data
    /\ nwrites' = nwrites + 1
    /\ lastOp' = "write"
    /\ UNCHANGED <<ctlVars, inputVars, ctxVars, loaderVars, resultVars,
                   suiteVars, histVars, nflush>>

FlushEmits ==
    /\ nflush < MaxFlush
    /\ nflush' = nflush + 1
    /\ lastOp' = "flush"
    /\ emitted' = IF buffer = <<>> THEN emitted ELSE Append(emitted, buffer)
    /\ buffer' = <<>>
    /\ UNCHANGED <<ctlVars, inputVars, ctxVars, loaderVars, resultVars,
                   suiteVars, histVars, written, nwrites>>

(* LogStream.flush: pass *)
Flush ==
    /\ nflush < MaxFlush
    /\ nflush' = nflush + 1
    /\ lastOp' = "flush"
    /\ UNCHANGED <<ctlVars, inputVars, ctxVars, loaderVars, resultVars,
                   suiteVars, histVars, buffer, emitted, written, nwrites>>

LogSpecInit ==
    /\ config = [isNone |-> TRUE, keys |-> {}, modules |-> <<>>]
    /\ ioe = "absent"
    /\ TaskInit
    /\ LogInit

NextLog == Write \/ Flush

SpecLog == LogSpecInit /\ [][NextLog]_vars

(***************************************************************************)
(* Properties.                                                             *)
(***************************************************************************)
Plain == result_class = "plain"

Interactive == result_class = "interactive"

TestPCs == {"setUp", "body", "tearDown", "finish"}

InTest == pc \in TestPCs \/ (pc = "suspended" /\ ret \in TestPCs)

RunEnded == pc \in {"raised", "yielded", "exited"} /\ resultCreated

(* C1: under the plain policy, when test k is the first to fail or error,
   tests 1..k have been started (every position up to the last started one
   was started) and no test after k is ever started. *)
C1_FailFastPlain ==
    Plain =>
        /\ testsRun = lastStarted
        /\ firstBad # 0 => lastStarted = firstBad

C1_Witness ==
    /\ Plain
    /\ RunEnded
    /\ Len(overall_suite) >= 3
    /\ firstBad = 2
    /\ lastStarted = 2

(* C2: under either policy, once a test has failed or errored, no later
   test of the suite is started. *)
C2_FailFastAnyPolicy ==
    firstBad # 0 => lastStarted = firstBad

(* The identifiers a message lists, joined from the last one backwards. *)
RECURSIVE CommaSep(_)
CommaSep(ids) ==
    IF Len(ids) = 0 THEN ""
    ELSE IF Len(ids) = 1 THEN ids[1]
    ELSE CommaSep(SubSeq(ids, 1, Len(ids) - 1)) \o ", " \o ids[Len(ids)]

RECURSIVE IdsOfKind(_, _)
IdsOfKind(rs, kind) ==
    IF rs = <<>> THEN <<>>
    ELSE (IF Head(rs).kind = kind THEN <<Head(rs).id>> ELSE <<>>)
         \o IdsOfKind(Tail(rs), kind)

IdsOf(rs) == [i \in 1..Len(rs) |-> rs[i].id]

(* C3 as stated: under the plain policy the task raises iff something was
   recorded, and the message lists the recorded identifiers in the order
   they were recorded. *)
C3_MessageInRecordedOrder ==
    (Plain /\ RunEnded) =>
        /\ (exc = "RuntimeError") <=> (recorded # <<>>)
        /\ exc = "RuntimeError" =>
               message = "Test failure: " \o CommaSep(IdsOf(recorded))

(* C3 amended: under the plain policy the task raises iff something was
   recorded, without raising it yields, and the message lists every
   recorded entry: all errors in recording order, then all failures in
   recording order. *)
C3_MessageErrorsThenFailures ==
    (Plain /\ RunEnded) =>
        /\ (exc = "RuntimeError") <=> (recorded # <<>>)
        /\ exc = "none" <=> pc \in {"yielded", "exited"}
        /\ exc = "RuntimeError" =>
               message = "Test failure: "
                         \o CommaSep(IdsOfKind(recorded, "error")
                                     \o IdsOfKind(recorded, "failure"))

C3_Witness ==
    /\ Plain
    /\ exc = "RuntimeError"
    /\ Len(recorded) = 2
    /\ recorded[1].kind = "failure"
    /\ recorded[2].kind = "error"
    /\ recorded[1].id # recorded[2].id

(* C4 as stated: under the interactive policy a test that failed or
   errored has had exactly one debugging session by the time it ends. *)
C4_OncePerTest ==
    (Interactive /\ pc = "finish" /\ curTestOutcomes >= 1) =>
        curTestSessions = 1

(* C4 amended: under the interactive policy the debugging collaborator is
   invoked exactly once per reported failure/error outcome of a test, and
   a session that was entered has returned whenever the run is anywhere
   but suspended in it. *)
C4_OncePerOutcome ==
    Interactive =>
        /\ curTestSessions = curTestOutcomes
        /\ sessionsOpen = IF pc = "suspended" THEN 1 ELSE 0

C4_Witness ==
    /\ Interactive
    /\ pc = "finish"
    /\ curTestOutcomes = 2
    /\ curTestSessions = 2
    /\ sessionsOpen = 0

(* C5: whenever a test has been started, its class carries every shared
   attribute with the value of the input mapping. *)
C5_DecoratedBeforeRun ==
    (idx > 0 /\ InTest) => attrs[CurClass] = Params

(***************************************************************************)
(* The lines of a text, read off the positions of its terminators.         *)
(***************************************************************************)
NLPositions(text) == { i \in DOMAIN text : text[i] = NL }

(* position of the k-th terminator of text (0 for k = 0) *)
NthNL(text, k) ==
    IF k = 0 THEN 0
    ELSE CHOOSE i \in NLPositions(text) :
             Cardinality({ j \in NLPositions(text) : j <= i }) = k

CompleteLines(text) ==
    [k \in 1..Cardinality(NLPositions(text)) |->
        SubSeq(text, NthNL(text, k - 1) + 1, NthNL(text, k) - 1)]

TrailingFragment(text) ==
    SubSeq(text, NthNL(text, Cardinality(NLPositions(text))) + 1, Len(text))

(* C6: after any sequence of writes the emitted records are, in order, the
   terminator-complete lines of the concatenation of everything written,
   and the buffer is the fragment after the last terminator; how the text
   was split across the writes does not matter. *)
C6_StreamEquivalence ==
    /\ emitted = CompleteLines(written)
    /\ buffer = TrailingFragment(written)

C6_Witness ==
    /\ nwrites = 2
    /\ written = <<"a", NL, "b", "a", NL>>
    /\ emitted = << <<"a">>, <<"b", "a">> >>
    /\ buffer = <<>>

(***************************************************************************)
(* Assembly.                                                               *)
(***************************************************************************)
Assembled == pc \notin {"entry", "assemble", "raised"} \/ resultCreated

(* number of tests the names before position i resolve to *)
RECURSIVE Offset(_, _)
Offset(names, i) ==
    IF i <= 1 THEN 0
    ELSE Offset(names, i - 1) + Len(TestsOfName(names[i - 1]))

(* C7: with an explicit list, the names are resolved once each in input
   order, and the assembled suite is the resolved sub-suites in input
   order: its length is the sum of their lengths and the tests of name i
   occupy the positions after those of all earlier names. *)
C7_SuiteFromList ==
    /\ Len(resolved) <= Len(config.modules)
    /\ \A i \in DOMAIN resolved : resolved[i] = config.modules[i]
    /\ (Assembled /\ config.modules # <<>>) =>
          /\ resolved = config.modules
          /\ Len(overall_suite) =
                 Offset(config.modules, Len(config.modules) + 1)
          /\ \A i \in DOMAIN config.modules :
                \A k \in 1..Len(TestsOfName(config.modules[i])) :
                    overall_suite[Offset(config.modules, i) + k] =
                        TestsOfName(config.modules[i])[k]

C7_Witness ==
    /\ pc = "select"
    /\ config.modules = << <<"m", "A", "test_a2">>, <<"m">> >>
    /\ Len(overall_suite) = 4
    /\ overall_suite[1] = TestCase("m.A", "test_a2")
    /\ overall_suite[4] = TestCase("m.B", "test_b1")

NoModulesConfigured(c) ==
    c.isNone \/ "modules" \notin c.keys \/ c.modules = <<>>

DiscoveredSuite ==
    << TestCase("m.A", "test_a1"), TestCase("m.A", "test_a2"),
       TestCase("m.B", "test_b1") >>

(* C8: with no config, no `modules` option or an empty `modules` list the
   suite is the discovered one and no name is resolved; with a non-empty
   list exactly its names are loaded and discovery is never invoked. *)
C8_ModeSelection ==
    /\ NoModulesConfigured(config) =>
          /\ resolved = <<>>
          /\ Assembled => (discoverCalls = 1 /\ overall_suite = DiscoveredSuite)
    /\ ~NoModulesConfigured(config) =>
          /\ discoverCalls = 0
          /\ Assembled => resolved = config.modules

C8_Witness ==
    /\ config.keys = {"modules"}
    /\ config.modules = <<>>
    /\ pc = "select"
    /\ discoverCalls = 1
    /\ overall_suite = DiscoveredSuite

AssemblyFailed ==
    \/ \E i \in DOMAIN resolved : resolved[i] = <<"m", "Z">>
    \/ (discoverCalls > 0 /\ overall_suite = <<>>)

(* C9: when resolving a name (at any position) or discovery fails, the
   error has left the task: it is the loader's error, no test was started,
   no result object was made, no policy was selected, no aggregate error
   was raised and the task did not yield. *)
C9_AssemblyErrorsFatal ==
    AssemblyFailed =>
        /\ pc = "raised"
        /\ exc \in {"ResolutionError", "DiscoveryError"}
        /\ (discoverCalls > 0) <=> (exc = "DiscoveryError")
        /\ message = ""
        /\ ~resultCreated
        /\ result_class = "none"
        /\ testsRun = 0 /\ lastStarted = 0 /\ idx = 0

C9_Witness ==
    /\ exc = "ResolutionError"
    /\ Len(resolved) = 2
    /\ Len(module_suites) = 1
    /\ pc = "raised"

(* C10: under both policies, a test that runs or has any outcome has had
   exactly one "Starting test" line logged before, and no test has more
   than one. *)
C10_StartLogged ==
    /\ curStartLogs <= 1
    /\ (idx > 0 /\ (InTest \/ curRan \/ curTestOutcomes > 0
                    \/ curTestSessions > 0)) => curStartLogs = 1
    /\ testsRun > 0 => lastStarted > 0

C10_Witness ==
    /\ Interactive
    /\ pc = "suspended"
    /\ ret = "tearDown"
    /\ curStartLogs = 1
    /\ curTestOutcomes = 1

(* C11: under the interactive policy nothing is ever appended to the
   result's failures or errors, so the inspection at the end of the run
   finds success: no aggregate error is raised and the task yields, even
   when tests failed. *)
C11_InteractiveRecordsNothing ==
    Interactive =>
        /\ failures = <<>>
        /\ errors = <<>>
        /\ recorded = <<>>
        /\ exc = "none"
        /\ message = ""
        /\ pc # "raised"
        /\ WasSuccessful(failures, errors)

C11_Witness ==
    /\ Interactive
    /\ pc = "yielded"
    /\ firstBad # 0
    /\ failures = <<>>
    /\ errors = <<>>

Yielded == pc \in {"yielded", "exited"}

LoopOver == shouldStop \/ idx = Len(overall_suite)

(* C12: the task yields to its caller only after the run has ended (the
   suite was exhausted or the run was stopped) and only with nothing
   recorded; with anything recorded at the end of the run the aggregate
   error is raised and the task never yields; after the yield no test is
   started and nothing is reported. *)
C12_YieldOrdering ==
    /\ [](Yielded =>
            /\ resultCreated
            /\ LoopOver
            /\ sessionsOpen = 0
            /\ recorded = <<>> /\ failures = <<>> /\ errors = <<>>
            /\ exc = "none")
    /\ []((RunEnded /\ recorded # <<>>) =>
            (pc = "raised" /\ exc = "RuntimeError"))
    /\ [][Yielded =>
            /\ pc' = "exited"
            /\ testsRun' = testsRun
            /\ lastStarted' = lastStarted
            /\ idx' = idx
            /\ recorded' = recorded
            /\ exc' = exc]_vars
    /\ [][pc = "raised" => pc' = "raised"]_vars

C12_Witness ==
    /\ pc = "exited"
    /\ Plain
    /\ Len(overall_suite) >= 3
    /\ testsRun = Len(overall_suite)
    /\ recorded = <<>>

(* number of entries of names that make the loader load class c: the
   module, or the class itself *)
LoadsOf(c, names) ==
    Cardinality({ i \in DOMAIN names :
                    \/ names[i] = <<"m">>
                    \/ (Len(names[i]) = 2 /\ "m." \o names[i][2] = c) })

DiscoveryLoaded == discoverCalls = 1 /\ exc # "DiscoveryError"

(* C13 as stated: no class is decorated more than once in a run, and the
   class of a test that has been started was decorated exactly once,
   however the class was reached. *)
C13_DecoratedExactlyOnce ==
    /\ \A c \in Classes : decorCount[c] <= 1
    /\ (idx > 0 /\ InTest) => decorCount[CurClass] = 1

(* C13 amended: a class is decorated once each time the loader loads it:
   once per entry of `modules` that names its module or the class itself,
   once under discovery, and not at all when only method names reach it;
   every decoration stamps the same values, so a decorated class carries
   exactly the input mapping and an undecorated one none of it. *)
C13_DecoratedPerLoad ==
    \A c \in Classes :
        /\ decorCount[c] =
               LoadsOf(c, resolved) + (IF DiscoveryLoaded THEN 1 ELSE 0)
        /\ decorCount[c] > 0 => attrs[c] = Params
        /\ decorCount[c] = 0 => attrs[c] = Unset

C13_Witness ==
    /\ pc = "select"
    /\ config.modules = << <<"m">>, <<"m", "A">> >>
    /\ decorCount["m.A"] = 2
    /\ decorCount["m.B"] = 1
    /\ attrs["m.A"] = Params

RECURSIVE TotalLen(_)
TotalLen(ls) == IF ls = <<>> THEN 0 ELSE Len(Head(ls)) + 1 + TotalLen(Tail(ls))

(* C14: in every state the buffer holds no line terminator, no emitted
   record holds one, and there is exactly one emitted record per
   terminator written so far: everything written is either in an emitted,
   terminated line or in the one buffered partial line. *)
C14_BufferInvariant ==
    /\ NL \notin Range(buffer)
    /\ \A i \in DOMAIN emitted : NL \notin Range(emitted[i])
    /\ Len(emitted) = Cardinality(NLPositions(written))
    /\ TotalLen(emitted) + Len(buffer) = Len(written)

C14_Witness ==
    /\ lastOp = "write"
    /\ nwrites >= 2
    /\ Len(emitted) = 2
    /\ buffer = <<"b">>

NLCount(text) == Cardinality(NLPositions(text))

(* C15: a flush() changes neither the buffer nor the emitted records nor
   the written text; the emitted records only change in a write() that
   brings a new terminator, so buffered text after the last terminator is
   not logged by any number of flushes. *)
C15_FlushNoOp ==
    /\ [][nflush' # nflush =>
            (buffer' = buffer /\ emitted' = emitted /\ written' = written)]_vars
    /\ [][emitted' # emitted =>
            (lastOp' = "write" /\ NLCount(written') > NLCount(written))]_vars

C15_Witness ==
    /\ lastOp = "flush"
    /\ nflush = MaxFlush
    /\ buffer = <<"a", "b">>
    /\ emitted = << <<"b">> >>

(* C16 as stated: the task leaves the execution context (its fs
   attribute, its mounts) as it found it. *)
C16_ContextUnchanged ==
    /\ ctx_fs = "unset"
    /\ ctx_mounts = CtxMounts

(* C16 amended: the task never changes ctx.mounts, the mount handles or
   ctx.config; its one change to the execution context is setting ctx.fs
   to the new filesystem handle, once, on entry, before assembly. *)
C16_OnlyCtxFsSet ==
    /\ [](ctx_mounts = CtxMounts)
    /\ [](pc # "entry" => ctx_fs = Params.fs)
    /\ [][ctx_mounts' = ctx_mounts /\ ioe' = ioe]_vars
    /\ [][ctx_fs' # ctx_fs =>
            (pc = "entry" /\ ctx_fs = "unset" /\ ctx_fs' = Params.fs)]_vars

C16_Witness ==
    /\ pc = "exited"
    /\ Interactive
    /\ firstBad # 0
    /\ ctx_fs = Params.fs
    /\ ctx_mounts = CtxMounts

(* C17: the result class is chosen once, before the runner exists and
   before any test starts, from the interactive-on-error flag, and never
   changes; with the flag absent or false it is the plain one and the
   debugging collaborator is never invoked whatever the outcomes; with
   the flag true every reported failure or error invokes it, with the
   shared execution context as argument. *)
C17_PolicySelection ==
    /\ [](result_class # "none" =>
            result_class = IF ioe = "true" THEN "interactive" ELSE "plain")
    /\ []((resultCreated \/ testsRun > 0) => result_class # "none")
    /\ [](ioe # "true" =>
            (sessionArg = "none" /\ sessionsOpen = 0 /\ curTestSessions = 0))
    /\ [](ioe = "true" =>
            /\ curTestSessions = curTestOutcomes
            /\ sessionArg \in {"none", Params.ctx}
            /\ firstBad # 0 => sessionArg = Params.ctx)
    /\ [][result_class # "none" => result_class' = result_class]_vars

C17_Witness ==
    /\ ioe = "absent"
    /\ Plain
    /\ RunEnded
    /\ firstBad # 0
    /\ sessionArg = "none"

RunningPCs ==
    {"loop", "tearDownPrev", "classSetUp", "afterFixture", "startTest",
     "setUp", "body", "tearDown", "finish", "topLevel", "runEnd"}

(* C18: while a debugging session is open the harness is suspended in it:
   exactly one session is open, nothing has been raised and the task has
   not yielded; the only step out of the suspension is the session's
   return, which resumes the run where the outcome was reported, starts
   no test and no session, and changes nothing of the result. *)
C18_SuspensionBlocks ==
    /\ []((sessionsOpen > 0 \/ pc = "suspended") =>
            /\ pc = "suspended"
            /\ sessionsOpen = 1
            /\ Interactive
            /\ ret \in RunningPCs
            /\ exc = "none")
    /\ [][pc = "suspended" =>
            /\ pc' = ret
            /\ sessionsOpen' = 0
            /\ testsRun' = testsRun
            /\ lastStarted' = lastStarted
            /\ idx' = idx
            /\ curTestSessions' = curTestSessions
            /\ exc' = exc
            /\ <<failures, errors, shouldStop>>' = <<failures, errors, shouldStop>>]_vars

C18_Witness ==
    /\ pc = "suspended"
    /\ ret = "finish"
    /\ sessionsOpen = 1
    /\ curTestSessions = 2

Terminal == Yielded \/ (pc = "raised" /\ exc = "RuntimeError")

(* C19: once the suite is assembled, and every test and debugging session
   returns, the task reaches a terminal outcome: it yields to its caller
   or it raises the aggregate error; never both, and after the raise
   nothing more happens, so the error is raised at most once. *)
C19_Terminates ==
    /\ Assembled ~> Terminal
    /\ [](~(Yielded /\ exc # "none"))
    /\ [][exc # "none" => (pc = "raised" /\ pc' = "raised" /\ exc' = exc)]_vars
    /\ [][Yielded => (pc' = "exited" /\ exc' = "none")]_vars

C19_Witness ==
    /\ pc = "raised"
    /\ exc = "RuntimeError"
    /\ testsRun = 2
    /\ Len(overall_suite) >= 3

====
